---- MODULE Spec2Model ----
(***************************************************************************)
(* A state-machine model of src/src/lib.rs: the winit event-loop closure   *)
(* of run(), and State::{new, resize, input, update, render}.              *)
(*                                                                         *)
(* Lengths are in hundredths of a world unit (speed 0.2 is 20).  The eye   *)
(* is kept in polar form about the target: eye = target - dist * d(dir),   *)
(* where dist is the distance to the target and dir indexes the direction  *)
(* (dir 0 is the direction of the initial eye (0, 1, 2)).                   *)
(* f32 ratios are kept as reduced fractions num/den; den = 0 stands for    *)
(* the IEEE results of a division by zero (1/0 = inf, 0/0 = NaN).          *)
(***************************************************************************)
EXTENDS Integers, Sequences, FiniteSets, TLC

\* ------------------------------------------------------------------ bounds

\* Window widths range over 0..MaxWidth, heights over 0..MaxHeight.
MaxWidth == 2
MaxHeight == 1
\* The event loop is followed for MaxFrames iterations.
MaxFrames == 2
\* At most MaxHeld tracked keys are held down at once.
MaxHeld == 1
\* update() is entered after at most MaxSteps earlier forward or backward
\* moves of the eye.
MaxSteps == 11

\* ------------------------------------------------------- program constants

\* CameraController::new(0.2), in hundredths.
Speed == 20
\* |(0,1,2) - (0,0,0)| = sqrt(5) = 2.236..., in hundredths.
EyeDist0 == 224

Sizes == [width : 0..MaxWidth, height : 0..MaxHeight]
\* surface.get_preferred_format(&adapter): one format, fixed by the platform
\* for the whole run.
PreferredFormat == "preferred_format"
SurfaceErrors == {"Lost", "OutOfMemory", "Timeout", "Outdated"}
TrackedKeys == {"W", "A", "S", "D"}
Keys == TrackedKeys \cup {"Escape", "Space"}
ElementStates == {"Pressed", "Released"}

\* winit WindowEvent values delivered to the closure.
WindowEvents ==
    [type : {"CloseRequested", "CursorMoved", "Focused"}]
    \cup [type : {"KeyboardInput"}, state : ElementStates, key : Keys]
    \cup [type : {"Resized", "ScaleFactorChanged"}, new_size : Sizes]

\* ------------------------------------------------------------- pure helpers

RECURSIVE GCD(_, _)
GCD(a, b) == IF b = 0 THEN a ELSE GCD(b, a % b)

\* `w as f32 / h as f32`
Ratio(w, h) ==
    LET g == GCD(w, h)
    IN  IF g = 0 THEN [num |-> 0, den |-> 0]
        ELSE [num |-> w \div g, den |-> h \div g]

RECURSIVE Count(_, _)
Count(s, x) ==
    IF s = <<>> THEN 0
    ELSE (IF Head(s) = x THEN 1 ELSE 0) + Count(Tail(s), x)

\* Camera::build_view_projection_matrix: OPENGL_TO_WGPU_MATRIX * proj * view,
\* kept as the three factors' arguments.
build_view_projection_matrix(cam) ==
    [ correction |-> "OPENGL_TO_WGPU_MATRIX",
      proj |-> [fovy |-> cam.fovy, aspect |-> cam.aspect,
                znear |-> cam.znear, zfar |-> cam.zfar],
      view |-> [eye |-> cam.eye, target |-> cam.target, up |-> cam.up] ]

\* CameraUniform::new
CameraUniformNew == [view_proj |-> "identity"]

\* CameraUniform::update_view_proj
update_view_proj(uniform, cam) ==
    [uniform EXCEPT !.view_proj = build_view_projection_matrix(cam)]

\* ------------------------------------------------------- camera controller

\* CameraController::new(speed)
CameraControllerNew(speed) ==
    [ speed |-> speed,
      is_forward_pressed |-> FALSE, is_backward_pressed |-> FALSE,
      is_left_pressed |-> FALSE, is_right_pressed |-> FALSE ]

\* CameraController::process_events: the controller after the event, and
\* whether the event was consumed.  A tracked key records its press state and
\* is consumed; a pointer-position event is consumed; nothing else is.
process_events(ctrl, event) ==
    IF event.type = "KeyboardInput" /\ event.key \in TrackedKeys
    THEN LET is_pressed == (event.state = "Pressed")
         IN [ handled |-> TRUE,
              ctrl |-> CASE event.key = "W" ->
                              [ctrl EXCEPT !.is_forward_pressed = is_pressed]
                         [] event.key = "S" ->
                              [ctrl EXCEPT !.is_backward_pressed = is_pressed]
                         [] event.key = "A" ->
                              [ctrl EXCEPT !.is_left_pressed = is_pressed]
                         [] event.key = "D" ->
                              [ctrl EXCEPT !.is_right_pressed = is_pressed] ]
    ELSE [ handled |-> (event.type = "CursorMoved"), ctrl |-> ctrl ]

\* update_camera() without the `forward_mag > speed` guard on the forward move.
update_camera_no_guard(ctrl, cam) ==
    LET d1 == IF ctrl.is_forward_pressed
              THEN cam.eye.dist - ctrl.speed ELSE cam.eye.dist
        d2 == IF ctrl.is_backward_pressed THEN d1 + ctrl.speed ELSE d1
        r1 == IF ctrl.is_right_pressed THEN cam.eye.dir + 1 ELSE cam.eye.dir
        r2 == IF ctrl.is_left_pressed THEN cam.eye.dir - 1 ELSE r1
    IN  [cam EXCEPT !.eye = [dist |-> d2, dir |-> r2]]

\* CameraController::update_camera: the camera after one Input-Driven Camera
\* Update.  Forward moves the eye by speed towards the target while the
\* distance exceeds speed; backward moves it away; a strafe turns the eye
\* about the target on the sphere of the distance just computed.
update_camera(ctrl, cam) ==
    LET forward_mag == cam.eye.dist
        d1 == IF ctrl.is_forward_pressed /\ forward_mag > ctrl.speed
              THEN cam.eye.dist - ctrl.speed ELSE cam.eye.dist
        d2 == IF ctrl.is_backward_pressed THEN d1 + ctrl.speed ELSE d1
        r1 == IF ctrl.is_right_pressed THEN cam.eye.dir + 1 ELSE cam.eye.dir
        r2 == IF ctrl.is_left_pressed THEN cam.eye.dir - 1 ELSE r1
    IN  [cam EXCEPT !.eye = [dist |-> d2, dir |-> r2]]

\* ------------------------------------------------------------------- State

NonZero(sz) == sz.width > 0 /\ sz.height > 0

\* Whether a size resize() is called with passes its guard.
Area(sz) == IF NonZero(sz) THEN "sized" ELSE "zero_area"

\* resize() that stores the new size and never calls surface.configure.
resize_no_configure(st, new_size) ==
    LET called == [st EXCEPT !.resize_calls = Append(st.resize_calls, Area(new_size))]
    IN  IF new_size.width > 0 /\ new_size.height > 0
        THEN [ called EXCEPT !.size = new_size,
                             !.config = [st.config EXCEPT !.width = new_size.width,
                                                          !.height = new_size.height] ]
        ELSE called

\* resize() whose guard is `width > 0 || height > 0`.
resize_or_guard(st, new_size) ==
    LET called == [st EXCEPT !.resize_calls = Append(st.resize_calls, Area(new_size))]
    IN  IF new_size.width > 0 \/ new_size.height > 0
        THEN LET cfg == [st.config EXCEPT !.width = new_size.width,
                                          !.height = new_size.height]
             IN [ called EXCEPT !.size = new_size,
                                !.config = cfg,
                                !.surface = cfg,
                                !.log = Append(st.log, "configure") ]
        ELSE called

\* resize() that copies the configuration's width and height from self.size
\* before self.size is assigned.
resize_stale_size(st, new_size) ==
    LET called == [st EXCEPT !.resize_calls = Append(st.resize_calls, Area(new_size))]
    IN  IF new_size.width > 0 /\ new_size.height > 0
        THEN LET cfg == [st.config EXCEPT !.width = st.size.width,
                                          !.height = st.size.height]
             IN [ called EXCEPT !.size = new_size,
                                !.config = cfg,
                                !.surface = cfg,
                                !.log = Append(st.log, "configure") ]
        ELSE called

\* resize() that builds a fresh configuration with a format of its own
\* instead of updating the width and height of self.config.
resize_fresh_config(st, new_size) ==
    LET called == [st EXCEPT !.resize_calls = Append(st.resize_calls, Area(new_size))]
    IN  IF new_size.width > 0 /\ new_size.height > 0
        THEN LET cfg == [ usage |-> "RENDER_ATTACHMENT",
                          format |-> "Bgra8UnormSrgb",
                          width |-> new_size.width,
                          height |-> new_size.height,
                          present_mode |-> "Fifo" ]
             IN [ called EXCEPT !.size = new_size,
                                !.config = cfg,
                                !.surface = cfg,
                                !.log = Append(st.log, "configure") ]
        ELSE called

\* State::resize, on the fields of State it reads and writes (st.size,
\* st.config, and st.surface, the configuration the surface holds).  st.log
\* collects the calls made on the surface and st.resize_calls the calls of
\* resize(), each with the kind of size it was given.
resize(st, new_size) ==
    LET called == [st EXCEPT !.resize_calls = Append(st.resize_calls, Area(new_size))]
    IN  IF new_size.width > 0 /\ new_size.height > 0
        THEN LET cfg == [st.config EXCEPT !.width = new_size.width,
                                          !.height = new_size.height]
             IN [ called EXCEPT !.size = new_size,
                                !.config = cfg,
                                !.surface = cfg,
                                !.log = Append(st.log, "configure") ]
        ELSE called

\* The camera built by State::new from the surface configuration.
CameraNew(cfg) ==
    [ eye |-> [dist |-> EyeDist0, dir |-> 0],
      target |-> <<0, 0, 0>>,
      up |-> <<0, 1, 0>>,
      aspect |-> Ratio(cfg.width, cfg.height),
      fovy |-> 45,
      znear |-> 10,
      zfar |-> 10000 ]

\* The surface configuration built by State::new.
ConfigNew(window_size, format) ==
    [ usage |-> "RENDER_ATTACHMENT",
      format |-> format,
      width |-> window_size.width,
      height |-> window_size.height,
      present_mode |-> "Fifo" ]

\* const VERTICES: the pentagon's five vertices A..E, each field holding the
\* decimal expression the source writes for it.
VERTICES ==
    << [position |-> <<"-0.0868241", "0.49240386", "0.0">>,
        tex_coords |-> <<"0.4131759", "1.0 - 0.99240386">>],
       [position |-> <<"-0.49513406", "0.06958647", "0.0">>,
        tex_coords |-> <<"0.0048659444", "1.0 - 0.56958647">>],
       [position |-> <<"-0.21918549", "-0.44939706", "0.0">>,
        tex_coords |-> <<"0.28081453", "1.0 - 0.05060294">>],
       [position |-> <<"0.35966998", "-0.3473291", "0.0">>,
        tex_coords |-> <<"0.85967", "1.0 - 0.1526709">>],
       [position |-> <<"0.44147372", "0.2347359", "0.0">>,
        tex_coords |-> <<"0.9414737", "1.0 - 0.7347359">>] >>

\* INDICES whose last triangle names a sixth vertex.
INDICES_out_of_range == <<0, 1, 4, 1, 2, 4, 2, 3, 5>>

\* const INDICES: &[u16], as vertex numbers counted from 0.
INDICES == <<0, 1, 4, 1, 2, 4, 2, 3, 4>>

\* The render pipeline State::new creates for the surface configuration cfg.
RenderPipelineNew(cfg) ==
    [ bind_group_layouts |-> <<"texture_bind_group_layout",
                               "camera_bind_group_layout">>,
      vertex_entry_point |-> "vs_main",
      fragment_entry_point |-> "fs_main",
      target_format |-> cfg.format,
      topology |-> "TriangleList" ]

\* The texture bind group State::new creates from happy-tree.png.
DiffuseBindGroupNew == [texture |-> "happy-tree.png"]

\* The camera bind group State::new creates: binding 0 is the camera buffer.
CameraBindGroupNew == [binding_0 |-> "camera_buffer"]

\* The commands render() records into the render pass, in order.
RenderPassCommands ==
    << "begin_render_pass", "set_pipeline", "set_bind_group_0",
       "set_bind_group_1", "set_vertex_buffer", "set_index_buffer",
       "draw_indexed" >>

\* The calls State::new makes on the instance, the adapter and the surface.
InitCalls == <<"create_surface", "request_adapter", "request_device", "configure">>

\* render() with output.present() written before self.queue.submit(..).
RenderOrderPresentFirst ==
    << "acquire", "record", "end_pass", "present", "submit", "return" >>

\* The statements of render() in program order: get_current_texture; the
\* view, the encoder and the render pass; the end of the pass's block;
\* queue.submit; output.present; Ok(()).
RenderOrder ==
    << "acquire", "record", "end_pass", "submit", "present", "return" >>

\* The statement of render() that follows `label`.
After(label) ==
    RenderOrder[(CHOOSE k \in 1..Len(RenderOrder) : RenderOrder[k] = label) + 1]

\* render()'s locals before get_current_texture: no output, no encoder, and
\* nothing recorded.
NoFrame == [output |-> "none", encoder |-> "none", pass |-> <<>>]

VARIABLES
    camera,             \* State.camera
    camera_buffer,      \* contents of State.camera_buffer
    camera_controller,  \* State.camera_controller
    camera_uniform,     \* State.camera_uniform
    config,             \* State.config
    size,               \* State.size
    surface,            \* the configuration State.surface was last configured with
    control_flow,       \* *control_flow of the event loop
    stage,              \* where the event loop is in its iteration
    redraw_requested,   \* window.request_redraw() is pending
    pc,                 \* position inside the RedrawRequested handler
    render_result,      \* what state.render() returned in this handler
    frame,              \* render()'s locals: the acquired output, the encoder
    log,                \* surface/queue/pass calls made by the current handler
    iteration,          \* the number of the current loop iteration
    updates,            \* update() calls in this loop iteration
    renders,            \* render() calls in this loop iteration
    vertex_buffer,      \* contents of State.vertex_buffer
    index_buffer,       \* contents of State.index_buffer
    num_indices,        \* State.num_indices
    diffuse_bind_group, \* State.diffuse_bind_group
    camera_bind_group,  \* State.camera_bind_group
    render_pipeline,    \* State.render_pipeline
    resize_calls,       \* the calls of resize() made by the current handler
    known_size          \* the initial window size, or the last non-zero size given to resize()

\* The mesh, bind group and pipeline fields of State.
meshVars == << vertex_buffer, index_buffer, num_indices, diffuse_bind_group,
               camera_bind_group, render_pipeline >>

vars == << camera, camera_buffer, camera_controller, camera_uniform, config,
           size, surface, control_flow, stage, redraw_requested, pc,
           render_result, frame, log, iteration, updates, renders,
           resize_calls, known_size, meshVars >>

stateVars == << camera, camera_buffer, camera_controller, camera_uniform,
                config, size, surface, meshVars >>

\* State::new(&window), then event_loop.run
Init ==
    \E window_size \in Sizes :
        /\ size = window_size
        /\ config = ConfigNew(window_size, PreferredFormat)
        /\ surface = config
        /\ camera_controller = CameraControllerNew(Speed)
        /\ camera = CameraNew(config)
        /\ camera_uniform = update_view_proj(CameraUniformNew, camera)
        /\ camera_buffer = camera_uniform
        /\ vertex_buffer = VERTICES
        /\ index_buffer = INDICES
        /\ num_indices = Len(INDICES)
        /\ diffuse_bind_group = DiffuseBindGroupNew
        /\ camera_bind_group = CameraBindGroupNew
        /\ render_pipeline = RenderPipelineNew(config)
        /\ control_flow = "Poll"
        /\ stage = "events"
        /\ redraw_requested = FALSE
        /\ pc = "idle"
        /\ render_result = "none"
        /\ frame = NoFrame
        /\ log = InitCalls
        /\ iteration = 1
        /\ updates = 0
        /\ renders = 0
        /\ resize_calls = <<>>
        /\ known_size = window_size

\* The State fields resize() works on, as a handler that has made the calls
\* in `calls` so far finds them.
ResizeView(calls) ==
    [ size |-> size, config |-> config, surface |-> surface, log |-> calls,
      resize_calls |-> <<>> ]

\* State::input
input(ctrl, event) == process_events(ctrl, event)

\* The WindowEvent arm that matches the event whatever input() returned.
match_event_ignores_handled(handled, st, cf, event) ==
    CASE event.type = "CloseRequested"
         \/ ( /\ event.type = "KeyboardInput"
              /\ event.state = "Pressed"
              /\ event.key = "Escape" ) ->
            [st |-> st, control_flow |-> "Exit"]
      [] event.type \in {"Resized", "ScaleFactorChanged"} ->
            [st |-> resize(st, event.new_size), control_flow |-> cf]
      [] OTHER ->
            [st |-> st, control_flow |-> cf]

\* `if !state.input(event) { match event { ... } }`: what the WindowEvent arm
\* does to the resize view and to *control_flow, given what input() returned.
match_event(handled, st, cf, event) ==
    IF handled
    THEN [st |-> st, control_flow |-> cf]
    ELSE CASE event.type = "CloseRequested"
              \/ ( /\ event.type = "KeyboardInput"
                   /\ event.state = "Pressed"
                   /\ event.key = "Escape" ) ->
                [st |-> st, control_flow |-> "Exit"]
           [] event.type \in {"Resized", "ScaleFactorChanged"} ->
                [st |-> resize(st, event.new_size), control_flow |-> cf]
           [] OTHER ->
                [st |-> st, control_flow |-> cf]

\* The closure's Event::WindowEvent arm: the event goes to state.input(), and
\* only an event it does not consume is matched further.
window_event(ctrl, st, cf, event) ==
    LET r == input(ctrl, event)
        m == match_event(r.handled, st, cf, event)
    IN  [ctrl |-> r.ctrl, st |-> m.st, control_flow |-> m.control_flow]

\* The sizes the WindowEvent arm hands to resize() for this event.
ResizeArgs(ctrl, event) ==
    IF event.type \in {"Resized", "ScaleFactorChanged"} /\ ~input(ctrl, event).handled
    THEN <<event.new_size>> ELSE <<>>

\* The last known non-zero window size after resize() was called with the
\* sizes in `calls`, in order.
RECURSIVE KnownAfter(_, _)
KnownAfter(known, calls) ==
    IF calls = <<>> THEN known
    ELSE KnownAfter(IF Head(calls).width > 0 /\ Head(calls).height > 0
                    THEN Head(calls) ELSE known, Tail(calls))

\* The number of tracked keys the controller holds as pressed.
Held(ctrl) ==
    Cardinality({f \in {"is_forward_pressed", "is_backward_pressed",
                        "is_left_pressed", "is_right_pressed"} : ctrl[f]})

\* render() with draw_indexed written before set_index_buffer.
render_pass_draw_early ==
    << [op |-> "begin_render_pass",
        load |-> [clear |-> [r |-> "0.1", g |-> "0.1", b |-> "0.1", a |-> "1.0"]],
        store |-> TRUE],
       [op |-> "set_pipeline", pipeline |-> render_pipeline],
       [op |-> "set_bind_group", index |-> 0, bind_group |-> diffuse_bind_group],
       [op |-> "set_bind_group", index |-> 1, bind_group |-> camera_bind_group],
       [op |-> "set_vertex_buffer", slot |-> 0, buffer |-> vertex_buffer],
       [op |-> "draw_indexed", indices |-> [start |-> 0, end |-> num_indices],
        base_vertex |-> 0, instances |-> [start |-> 0, end |-> 1]],
       [op |-> "set_index_buffer", buffer |-> index_buffer, format |-> "Uint16"] >>

\* State::render: what the block of `render_pass` records into the encoder,
\* in program order, with the arguments of each call.
render_pass ==
    << [op |-> "begin_render_pass",
        load |-> [clear |-> [r |-> "0.1", g |-> "0.1", b |-> "0.1", a |-> "1.0"]],
        store |-> TRUE],
       [op |-> "set_pipeline", pipeline |-> render_pipeline],
       [op |-> "set_bind_group", index |-> 0, bind_group |-> diffuse_bind_group],
       [op |-> "set_bind_group", index |-> 1, bind_group |-> camera_bind_group],
       [op |-> "set_vertex_buffer", slot |-> 0, buffer |-> vertex_buffer],
       [op |-> "set_index_buffer", buffer |-> index_buffer, format |-> "Uint16"],
       [op |-> "draw_indexed", indices |-> [start |-> 0, end |-> num_indices],
        base_vertex |-> 0, instances |-> [start |-> 0, end |-> 1]] >>

\* ----------------------------------------------------------------- actions

\* The WindowEvent arm with a resize() that also sets the camera's aspect
\* ratio from the size it stored.
WindowEventSetsAspect(event) ==
    /\ stage = "events"
    /\ pc = "idle"
    /\ Held(input(camera_controller, event).ctrl) <= MaxHeld
    /\ LET r == window_event(camera_controller, ResizeView(<<>>), control_flow, event)
       IN /\ camera_controller' = r.ctrl
          /\ size' = r.st.size
          /\ config' = r.st.config
          /\ surface' = r.st.surface
          /\ log' = r.st.log
          /\ resize_calls' = r.st.resize_calls
          /\ control_flow' = r.control_flow
          /\ camera' = IF r.st.resize_calls = <<"sized">>
                       THEN [camera EXCEPT !.aspect = Ratio(r.st.size.width,
                                                            r.st.size.height)]
                       ELSE camera
    /\ known_size' = KnownAfter(known_size, ResizeArgs(camera_controller, event))
    /\ render_result' = "none"
    /\ UNCHANGED << camera_buffer, camera_uniform, meshVars, stage,
                    redraw_requested, pc, frame, updates, renders, iteration >>

\* The closure is called with a WindowEvent of the window.
WindowEvent(event) ==
    /\ stage = "events"
    /\ pc = "idle"
    /\ Held(input(camera_controller, event).ctrl) <= MaxHeld
    /\ LET r == window_event(camera_controller, ResizeView(<<>>), control_flow, event)
       IN /\ camera_controller' = r.ctrl
          /\ size' = r.st.size
          /\ config' = r.st.config
          /\ surface' = r.st.surface
          /\ log' = r.st.log
          /\ resize_calls' = r.st.resize_calls
          /\ control_flow' = r.control_flow
    /\ known_size' = KnownAfter(known_size, ResizeArgs(camera_controller, event))
    /\ render_result' = "none"
    /\ UNCHANGED << camera, camera_buffer, camera_uniform, meshVars, stage,
                    redraw_requested, pc, frame, updates, renders, iteration >>

\* Event::MainEventsCleared: window.request_redraw()
MainEventsCleared ==
    /\ stage = "events"
    /\ pc = "idle"
    /\ stage' = "redraw"
    /\ redraw_requested' = TRUE
    /\ resize_calls' = <<>>
    /\ log' = <<"request_redraw">>
    /\ render_result' = "none"
    /\ UNCHANGED << stateVars, control_flow, pc, frame, updates, renders,
                    known_size, iteration >>

\* The RedrawRequested arm without its state.update() call.
RedrawRequestedNoUpdate ==
    /\ stage = "redraw"
    /\ redraw_requested
    /\ pc = "idle"
    /\ pc' = "acquire"
    /\ redraw_requested' = FALSE
    /\ resize_calls' = <<>>
    /\ log' = <<>>
    /\ render_result' = "none"
    /\ frame' = NoFrame
    /\ UNCHANGED << stateVars, control_flow, stage, updates, renders,
                    known_size, iteration >>

\* Event::RedrawRequested: the handler is entered, state.update() is next.
RedrawRequested ==
    /\ stage = "redraw"
    /\ redraw_requested
    /\ pc = "idle"
    /\ pc' = "update"
    /\ redraw_requested' = FALSE
    /\ resize_calls' = <<>>
    /\ log' = <<>>
    /\ render_result' = "none"
    /\ frame' = NoFrame
    /\ UNCHANGED << stateVars, control_flow, stage, updates, renders,
                    known_size, iteration >>

\* update() whose queue.write_buffer is given self.vertex_buffer.
UpdateWritesVertexBuffer ==
    /\ pc = "update"
    /\ camera' = update_camera(camera_controller, camera)
    /\ camera_uniform' = update_view_proj(camera_uniform, camera')
    /\ vertex_buffer' = <<camera_uniform'>>
    /\ log' = Append(log, "write_buffer")
    /\ updates' = updates + 1
    /\ pc' = "acquire"
    /\ UNCHANGED << camera_buffer, camera_controller, config, size, surface,
                    index_buffer, num_indices, diffuse_bind_group,
                    camera_bind_group, render_pipeline,
                    control_flow, stage, redraw_requested, render_result,
                    frame, iteration, renders, resize_calls, known_size >>

\* update() that recomputes the uniform and leaves out queue.write_buffer.
UpdateNoWrite ==
    /\ pc = "update"
    /\ camera' = update_camera(camera_controller, camera)
    /\ camera_uniform' = update_view_proj(camera_uniform, camera')
    /\ updates' = updates + 1
    /\ pc' = "acquire"
    /\ UNCHANGED << camera_buffer, log, camera_controller, config, size,
                    surface, meshVars,
                    control_flow, stage, redraw_requested, render_result,
                    frame, iteration, renders, resize_calls, known_size >>

\* State::update
Update ==
    /\ pc = "update"
    /\ camera' = update_camera(camera_controller, camera)
    /\ camera_uniform' = update_view_proj(camera_uniform, camera')
    /\ camera_buffer' = camera_uniform'
    /\ log' = Append(log, "write_buffer")
    /\ updates' = updates + 1
    /\ pc' = "acquire"
    /\ UNCHANGED << camera_controller, config, size, surface, meshVars,
                    control_flow, stage, redraw_requested, render_result,
                    frame, iteration, renders, resize_calls, known_size >>

\* render() that reconfigures the surface once it holds the acquired frame.
AcquireOkReconfigure ==
    /\ pc = "acquire"
    /\ frame' = [frame EXCEPT !.output = "acquired"]
    /\ log' = log \o <<"get_current_texture", "configure">>
    /\ renders' = renders + 1
    /\ pc' = After("acquire")
    /\ UNCHANGED << stateVars, control_flow, stage, redraw_requested,
                    render_result, iteration, updates, resize_calls,
                    known_size >>

\* State::render, self.surface.get_current_texture() succeeds.
AcquireOk ==
    /\ pc = "acquire"
    /\ frame' = [frame EXCEPT !.output = "acquired"]
    /\ log' = Append(log, "get_current_texture")
    /\ renders' = renders + 1
    /\ pc' = After("acquire")
    /\ UNCHANGED << stateVars, control_flow, stage, redraw_requested,
                    render_result, iteration, updates, resize_calls,
                    known_size >>

\* render() that calls get_current_texture() a second time when the first
\* call fails, and returns the second error.
AcquireErrRetry(e) ==
    /\ pc = "acquire"
    /\ render_result' = e
    /\ log' = log \o <<"get_current_texture", "get_current_texture">>
    /\ renders' = renders + 1
    /\ pc' = "match"
    /\ UNCHANGED << stateVars, control_flow, stage, redraw_requested, frame,
                    iteration, updates, resize_calls,
                    known_size >>

\* State::render, self.surface.get_current_texture()? fails: render returns
\* the error.
AcquireErr(e) ==
    /\ pc = "acquire"
    /\ render_result' = e
    /\ log' = Append(log, "get_current_texture")
    /\ renders' = renders + 1
    /\ pc' = "match"
    /\ UNCHANGED << stateVars, control_flow, stage, redraw_requested, frame,
                    iteration, updates, resize_calls,
                    known_size >>

\* State::render: the view, the encoder, the render pass and its commands.
Record ==
    /\ pc = "record"
    /\ frame' = [frame EXCEPT !.encoder = "pass_open", !.pass = render_pass]
    /\ log' = log \o RenderPassCommands
    /\ pc' = After("record")
    /\ UNCHANGED << stateVars, control_flow, stage, redraw_requested,
                    render_result, iteration, updates, renders, resize_calls,
                    known_size >>

\* State::render: the block holding render_pass ends.
EndPass ==
    /\ pc = "end_pass"
    /\ frame' = [frame EXCEPT !.encoder = "pass_closed"]
    /\ log' = Append(log, "end_render_pass")
    /\ pc' = After("end_pass")
    /\ UNCHANGED << stateVars, control_flow, stage, redraw_requested,
                    render_result, iteration, updates, renders, resize_calls,
                    known_size >>

\* State::render: self.queue.submit(once(encoder.finish()))
Submit ==
    /\ pc = "submit"
    /\ frame' = [frame EXCEPT !.encoder = "finished"]
    /\ log' = Append(log, "submit")
    /\ pc' = After("submit")
    /\ UNCHANGED << stateVars, control_flow, stage, redraw_requested,
                    render_result, iteration, updates, renders, resize_calls,
                    known_size >>

\* State::render: output.present()
Present ==
    /\ pc = "present"
    /\ frame' = [frame EXCEPT !.output = "presented"]
    /\ log' = Append(log, "present")
    /\ pc' = After("present")
    /\ UNCHANGED << stateVars, control_flow, stage, redraw_requested,
                    render_result, iteration, updates, renders, resize_calls,
                    known_size >>

\* State::render: Ok(())
ReturnOk ==
    /\ pc = "return"
    /\ render_result' = "Ok"
    /\ frame' = NoFrame
    /\ pc' = "match"
    /\ UNCHANGED << stateVars, control_flow, stage, redraw_requested, log,
                    iteration, updates, renders, resize_calls,
                    known_size >>

\* The match with Lost treated as fatal instead of reconfiguring.
match_render_lost_fatal(result, st, cf) ==
    CASE result = "Ok" -> [st |-> st, control_flow |-> cf]
      [] result \in {"Lost", "OutOfMemory"} -> [st |-> st, control_flow |-> "Exit"]
      [] OTHER -> [st |-> [st EXCEPT !.log = Append(st.log, "eprintln")],
                   control_flow |-> cf]

\* The match without the OutOfMemory arm: the error falls to `Err(e)`.
match_render_oom_logged(result, st, cf) ==
    CASE result = "Ok" -> [st |-> st, control_flow |-> cf]
      [] result = "Lost" -> [st |-> resize(st, st.size), control_flow |-> cf]
      [] OTHER -> [st |-> [st EXCEPT !.log = Append(st.log, "eprintln")],
                   control_flow |-> cf]

\* The match with every error but Lost treated as fatal.
match_render_other_fatal(result, st, cf) ==
    CASE result = "Ok" -> [st |-> st, control_flow |-> cf]
      [] result = "Lost" -> [st |-> resize(st, st.size), control_flow |-> cf]
      [] OTHER -> [st |-> st, control_flow |-> "Exit"]

\* The closure's match on state.render(): what it does to the resize view
\* and to *control_flow.
match_render(result, st, cf) ==
    CASE result = "Ok" -> [st |-> st, control_flow |-> cf]
      [] result = "Lost" -> [st |-> resize(st, st.size), control_flow |-> cf]
      [] result = "OutOfMemory" -> [st |-> st, control_flow |-> "Exit"]
      [] OTHER -> [st |-> [st EXCEPT !.log = Append(st.log, "eprintln")],
                   control_flow |-> cf]

\* match state.render() { ... }: the arm for the result runs and the handler
\* returns.
Match(result) ==
    /\ pc = "match"
    /\ render_result = result
    /\ LET r == match_render(result, ResizeView(log), control_flow)
       IN /\ size' = r.st.size
          /\ config' = r.st.config
          /\ surface' = r.st.surface
          /\ log' = r.st.log
          /\ resize_calls' = r.st.resize_calls
          /\ control_flow' = r.control_flow
    /\ known_size' = KnownAfter(known_size,
                                IF result = "Lost" THEN <<size>> ELSE <<>>)
    /\ pc' = "idle"
    /\ UNCHANGED << camera, camera_buffer, camera_controller, camera_uniform,
                    meshVars, stage, redraw_requested, render_result, frame,
                    iteration, updates, renders >>

\* Event::RedrawEventsCleared (the closure's `_ => {}`): the iteration ends;
\* the loop starts another unless *control_flow is Exit.
RedrawEventsCleared ==
    /\ stage = "redraw"
    /\ pc = "idle"
    /\ ~redraw_requested
    /\ control_flow = "Exit" \/ iteration < MaxFrames
    /\ stage' = IF control_flow = "Exit" THEN "destroyed" ELSE "events"
    /\ iteration' = IF control_flow = "Exit" THEN iteration ELSE iteration + 1
    /\ updates' = 0
    /\ renders' = 0
    /\ resize_calls' = <<>>
    /\ log' = <<>>
    /\ render_result' = "none"
    /\ UNCHANGED << stateVars, control_flow, redraw_requested, pc, frame,
                    known_size >>

\* *control_flow is Exit: the loop may stop before the iteration's remaining
\* events are delivered (Event::LoopDestroyed, the closure's `_ => {}`).
LoopDestroyed ==
    /\ control_flow = "Exit"
    /\ pc = "idle"
    /\ stage \in {"events", "redraw"}
    /\ stage' = "destroyed"
    /\ redraw_requested' = FALSE
    /\ resize_calls' = <<>>
    /\ log' = <<>>
    /\ render_result' = "none"
    /\ UNCHANGED << stateVars, control_flow, pc, frame, updates, renders,
                    known_size, iteration >>

Next ==
    \/ \E event \in WindowEvents : WindowEvent(event)
    \/ MainEventsCleared
    \/ RedrawRequested
    \/ Update
    \/ AcquireOk
    \/ \E e \in SurfaceErrors : AcquireErr(e)
    \/ Record
    \/ EndPass
    \/ Submit
    \/ Present
    \/ ReturnOk
    \/ \E result \in SurfaceErrors \cup {"Ok"} : Match(result)
    \/ RedrawEventsCleared
    \/ LoopDestroyed

Spec == Init /\ [][Next]_vars

\* ------------------------------------------------------------- State::new

\* The value of a field of State that State::new has not computed yet.
Unbuilt == "unbuilt"

\* What request_adapter, request_device, get_preferred_format and
\* Texture::from_bytes can return.
Outcomes == {"ok", "failed"}

\* run() calls State::new(&window): `size` is read from the window and the
\* surface is created; nothing else is computed yet.  Until `Self { .. }`
\* the variables of the State fields hold the locals of State::new that
\* the fields are built from.
InitNew ==
    \E window_size \in Sizes :
        /\ size = window_size
        /\ config = Unbuilt
        /\ surface = Unbuilt
        /\ camera_controller = Unbuilt
        /\ camera = Unbuilt
        /\ camera_uniform = Unbuilt
        /\ camera_buffer = Unbuilt
        /\ vertex_buffer = Unbuilt
        /\ index_buffer = Unbuilt
        /\ num_indices = Unbuilt
        /\ diffuse_bind_group = Unbuilt
        /\ camera_bind_group = Unbuilt
        /\ render_pipeline = Unbuilt
        /\ control_flow = "Poll"
        /\ stage = "new"
        /\ redraw_requested = FALSE
        /\ pc = "request_adapter"
        /\ render_result = "none"
        /\ frame = NoFrame
        /\ log = <<"create_surface">>
        /\ iteration = 1
        /\ updates = 0
        /\ renders = 0
        /\ resize_calls = <<>>
        /\ known_size = window_size

\* A call of State::new returned `outcome`: on "ok" State::new goes on to
\* the statement `next`, otherwise its unwrap() panics and the process ends.
NewStep(call, outcome, next) ==
    /\ stage = "new"
    /\ IF outcome = "ok"
       THEN /\ log' = (IF call = "from_bytes" THEN log ELSE Append(log, call))
            /\ pc' = next
            /\ stage' = stage
       ELSE /\ log' = log \o << call \o "_failed", "panic" >>
            /\ pc' = "panicked"
            /\ stage' = "aborted"
    /\ UNCHANGED << camera, camera_buffer, camera_uniform,
                    size, meshVars, control_flow, redraw_requested,
                    render_result, frame, iteration, updates, renders,
                    resize_calls, known_size >>

\* instance.request_adapter(..).await.unwrap()
NewRequestAdapter(outcome) ==
    /\ pc = "request_adapter"
    /\ NewStep("request_adapter", outcome, "request_device")
    /\ UNCHANGED << config, surface, camera_controller >>

\* adapter.request_device(..).await.unwrap()
NewRequestDevice(outcome) ==
    /\ pc = "request_device"
    /\ NewStep("request_device", outcome, "configure")
    /\ UNCHANGED << config, surface, camera_controller >>

\* The configuration, with surface.get_preferred_format(&adapter).unwrap(),
\* surface.configure(&device, &config), and then the local
\* camera_controller = CameraController::new(0.2), which is built before
\* the texture is decoded.  When the format is missing the unwrap() panics
\* before either of them.
NewConfigure(outcome) ==
    /\ pc = "configure"
    /\ NewStep(IF outcome = "ok" THEN "configure" ELSE "get_preferred_format",
               outcome, "from_bytes")
    /\ config' = IF outcome = "ok" THEN ConfigNew(size, PreferredFormat)
                 ELSE config
    /\ surface' = config'
    /\ camera_controller' = IF outcome = "ok" THEN CameraControllerNew(Speed)
                            ELSE camera_controller

\* State::new that goes on without a texture when the image fails to decode.
NewTextureUnchecked(outcome) ==
    /\ pc = "from_bytes"
    /\ stage = "new"
    /\ log' = (IF outcome = "ok" THEN log ELSE Append(log, "from_bytes_failed"))
    /\ pc' = "build"
    /\ UNCHANGED << stateVars, control_flow, stage, redraw_requested,
                    render_result, frame, iteration, updates, renders,
                    resize_calls, known_size >>

\* texture::Texture::from_bytes(&device, &queue, diffuse_bytes, ..).unwrap()
NewTexture(outcome) ==
    /\ pc = "from_bytes"
    /\ NewStep("from_bytes", outcome, "build")
    /\ UNCHANGED << config, surface, camera_controller >>

\* The rest of State::new, none of which can fail: the bind groups, the
\* camera, its uniform and buffer, the mesh buffers, the pipeline and
\* `Self { .. }`, which moves the locals `config` and `camera_controller`
\* into the State; then run() starts the event loop.
NewBuild ==
    /\ pc = "build"
    /\ stage = "new"
    /\ camera' = CameraNew(config)
    /\ camera_uniform' = update_view_proj(CameraUniformNew, camera')
    /\ camera_buffer' = camera_uniform'
    /\ vertex_buffer' = VERTICES
    /\ index_buffer' = INDICES
    /\ num_indices' = Len(INDICES)
    /\ diffuse_bind_group' = DiffuseBindGroupNew
    /\ camera_bind_group' = CameraBindGroupNew
    /\ render_pipeline' = RenderPipelineNew(config)
    /\ stage' = "events"
    /\ pc' = "idle"
    /\ UNCHANGED << config, size, surface, camera_controller, control_flow,
                    redraw_requested, render_result, frame, log, iteration,
                    updates, renders, resize_calls, known_size >>

NextNew ==
    \/ \E outcome \in Outcomes : NewRequestAdapter(outcome)
    \/ \E outcome \in Outcomes : NewRequestDevice(outcome)
    \/ \E outcome \in Outcomes : NewConfigure(outcome)
    \/ \E outcome \in Outcomes : NewTexture(outcome)
    \/ NewBuild
    \/ Next

\* The program from the call of State::new on.
SpecNew == InitNew /\ [][NextNew]_vars

\* ------------------------------------------------ update() on its own inputs

\* The distances from the eye to the target that update() can find: the
\* initial distance after up to MaxSteps forward or backward moves.
UpdateDistances ==
    { d \in { EyeDist0 + k * Speed : k \in (0 - MaxSteps)..MaxSteps } : d >= 0 }

\* The controllers process_events() can have left behind.
Controllers ==
    { ctrl \in [ speed : {Speed},
                 is_forward_pressed : BOOLEAN, is_backward_pressed : BOOLEAN,
                 is_left_pressed : BOOLEAN, is_right_pressed : BOOLEAN ] :
        Held(ctrl) <= MaxHeld }

\* A redraw handling at its state.update() call, with the eye at one of
\* UpdateDistances and the controller in one of Controllers.
InitUpdate ==
    \E window_size \in Sizes, dist \in UpdateDistances, ctrl \in Controllers :
        /\ size = window_size
        /\ config = ConfigNew(window_size, PreferredFormat)
        /\ surface = config
        /\ camera_controller = ctrl
        /\ camera = [CameraNew(config) EXCEPT !.eye.dist = dist]
        /\ camera_uniform = update_view_proj(CameraUniformNew, camera)
        /\ camera_buffer = camera_uniform
        /\ vertex_buffer = VERTICES
        /\ index_buffer = INDICES
        /\ num_indices = Len(INDICES)
        /\ diffuse_bind_group = DiffuseBindGroupNew
        /\ camera_bind_group = CameraBindGroupNew
        /\ render_pipeline = RenderPipelineNew(config)
        /\ control_flow = "Poll"
        /\ stage = "redraw"
        /\ redraw_requested = FALSE
        /\ pc = "update"
        /\ render_result = "none"
        /\ frame = NoFrame
        /\ log = <<>>
        /\ iteration = 1
        /\ updates = 0
        /\ renders = 0
        /\ resize_calls = <<>>
        /\ known_size = window_size

SpecUpdate == InitUpdate /\ [][Update]_vars

\* ------------------------------------------------------------------ claims

ZeroSizes == {sz \in Sizes : ~NonZero(sz)}
NonZeroSizes == {sz \in Sizes : NonZero(sz)}
ResizeEvents == [type : {"Resized", "ScaleFactorChanged"}, new_size : Sizes]

\* C1: in every reachable state the stored configuration's width and height
\* equal State.size, which equals the last known window size (the initial
\* window size, or the last size with both dimensions non-zero that resize()
\* was called with), and the surface holds exactly that width and height: it
\* was reconfigured in the step that changed them.
C1_ConfigTracksWindowSize ==
    /\ config.width = size.width
    /\ config.height = size.height
    /\ size = known_size
    /\ surface.width = config.width
    /\ surface.height = config.height

\* C1 witness: a resize event of the second iteration has changed the size
\* away from the initial one.
C1_Witness ==
    /\ iteration = 2
    /\ stage = "events"
    /\ resize_calls = <<"sized">>
    /\ NonZero(size)
    /\ camera.aspect # Ratio(size.width, size.height)

\* C6: resize() with a zero width or height changes nothing: as a function it
\* returns the size, configuration and surface it was given and makes no call
\* on the surface, and the handler of a Resized or ScaleFactorChanged event
\* with such a size, like the handling of Lost under such a stored size,
\* leaves every field of State unchanged.
C6_ZeroResizeIsNoOp ==
    /\ [](\A sz \in ZeroSizes :
            LET r == resize(ResizeView(log), sz)
            IN  /\ r.size = size
                /\ r.config = config
                /\ r.surface = surface
                /\ r.log = log)
    /\ [][ /\ ( /\ stage = "events" /\ pc = "idle"
                /\ resize_calls' = <<"zero_area">> )
                    => (UNCHANGED stateVars /\ log' = <<>>)
           /\ ( /\ pc = "match" /\ render_result = "Lost"
                /\ ~NonZero(size) /\ pc' = "idle" )
                    => ( /\ resize_calls' = <<"zero_area">>
                         /\ UNCHANGED stateVars /\ log' = log ) ]_vars

\* C6 witness: the handler of a resize event has called resize() with a
\* zero-area size, after an earlier resize had set a non-zero size.
C6_Witness ==
    /\ stage = "events"
    /\ resize_calls = <<"zero_area">>
    /\ NonZero(size)
    /\ camera.aspect # Ratio(size.width, size.height)

\* C7: resize() is idempotent: for every non-zero size, a second call with
\* the same size yields the same stored size, configuration (width, height,
\* format, usage, present mode) and surface configuration as the first; and
\* in a state a handler reached by resize(sz), resize(sz) changes none of them.
C7_ResizeIdempotent ==
    \A sz \in NonZeroSizes :
        LET once == resize(ResizeView(<<>>), sz)
            twice == resize(once, sz)
        IN  /\ twice.size = once.size
            /\ twice.config = once.config
            /\ twice.surface = once.surface
            /\ (resize_calls = <<"sized">> /\ size = sz) =>
                   /\ once.size = size
                   /\ once.config = config
                   /\ once.surface = surface

\* C7 witness: a handler has called resize() with a non-zero size that differs
\* from the size the window started with.
C7_Witness ==
    /\ resize_calls = <<"sized">>
    /\ pc = "idle"
    /\ stage = "events"
    /\ camera.aspect # Ratio(size.width, size.height)

OtherErrors == SurfaceErrors \ {"Lost", "OutOfMemory"}

\* C2: the handler of a Resized or ScaleFactorChanged event with a non-zero
\* size reconfigures the surface to that size and sets the camera's aspect
\* ratio to new_width / new_height, changing no other Camera field.
C2_ResizeSetsAspect ==
    [][ \A e \in ResizeEvents :
            (NonZero(e.new_size) /\ WindowEvent(e)) =>
                /\ surface'.width = e.new_size.width
                /\ surface'.height = e.new_size.height
                /\ log' = <<"configure">>
                /\ camera'.aspect = Ratio(e.new_size.width, e.new_size.height)
                /\ [camera' EXCEPT !.aspect = camera.aspect] = camera ]_vars

\* C3, as claimed: the handling of a Lost result makes exactly one
\* reconfiguration, with the stored size, submits and presents nothing and
\* leaves the control flow alone, whatever the stored size is.
C3_LostReconfiguresOnce ==
    [][ (pc = "match" /\ render_result = "Lost" /\ pc' = "idle") =>
            /\ Count(log', "configure") = Count(log, "configure") + 1
            /\ resize_calls' = <<Area(size)>>
            /\ surface'.width = size.width
            /\ surface'.height = size.height
            /\ Count(log', "submit") = 0
            /\ Count(log', "present") = 0
            /\ control_flow' = control_flow
            /\ stage' = stage ]_vars

\* C3, amended: the handling of a Lost result calls resize() once with the
\* stored size; that is exactly one reconfiguration to the stored size when
\* both stored dimensions are non-zero and none when one is zero; either way
\* nothing is submitted or presented and the control flow is left alone.
C3_LostReconfiguresNonZero ==
    [][ (pc = "match" /\ render_result = "Lost" /\ pc' = "idle") =>
            /\ resize_calls' = <<Area(size)>>
            /\ IF NonZero(size)
               THEN /\ Count(log', "configure") = Count(log, "configure") + 1
                    /\ log' = Append(log, "configure")
                    /\ surface' = [config EXCEPT !.width = size.width,
                                                 !.height = size.height]
               ELSE /\ log' = log
                    /\ surface' = surface
            /\ size' = size
            /\ config' = surface'
            /\ Count(log', "submit") = 0
            /\ Count(log', "present") = 0
            /\ frame' = NoFrame
            /\ control_flow' = control_flow
            /\ stage' = stage ]_vars

\* C3 witness: a Lost result was handled under a non-zero stored size, with
\* one reconfiguration in the handler's calls.
C3_Witness ==
    /\ pc = "idle"
    /\ render_result = "Lost"
    /\ NonZero(size)
    /\ resize_calls = <<"sized">>
    /\ log = <<"write_buffer", "get_current_texture", "configure">>
    /\ control_flow = "Poll"

\* C4: an OutOfMemory result of the acquisition leaves render() as its
\* return value with no frame acquired; its handling sets the control flow
\* to Exit, reconfigures nothing, submits and presents nothing; and no
\* later step takes the control flow away from Exit.
C4_OutOfMemoryExits ==
    [][ /\ (pc = "acquire" /\ render_result' = "OutOfMemory") =>
                (pc' = "match" /\ frame' = NoFrame)
        /\ (pc = "match" /\ render_result = "OutOfMemory" /\ pc' = "idle") =>
                /\ control_flow' = "Exit"
                /\ log' = log
                /\ resize_calls' = <<>>
                /\ Count(log', "configure") = 0
                /\ Count(log', "submit") = 0
                /\ Count(log', "present") = 0
                /\ frame' = NoFrame
                /\ UNCHANGED stateVars
        /\ (control_flow = "Exit") => (control_flow' = "Exit") ]_vars

\* C4 witness: an OutOfMemory result was handled and the loop is to exit.
C4_Witness ==
    /\ pc = "idle"
    /\ render_result = "OutOfMemory"
    /\ control_flow = "Exit"
    /\ log = <<"write_buffer", "get_current_texture">>

\* C5: a Timeout or Outdated result of the acquisition leaves render() as its
\* return value with no frame acquired; its handling logs the error and
\* changes neither the control flow, nor the loop's position, nor any field
\* of State, and reconfigures nothing; and every redraw handling, whatever
\* came before it, makes its own single acquisition attempt.
C5_OtherErrorsSkipFrame ==
    /\ [][ /\ (pc = "acquire" /\ render_result' \in OtherErrors) =>
                   (pc' = "match" /\ frame' = NoFrame)
           /\ (pc = "match" /\ render_result \in OtherErrors /\ pc' = "idle") =>
                   /\ log' = Append(log, "eprintln")
                   /\ Count(log', "configure") = 0
                   /\ Count(log', "submit") = 0
                   /\ Count(log', "present") = 0
                   /\ resize_calls' = <<>>
                   /\ control_flow' = control_flow
                   /\ stage' = stage
                   /\ iteration' = iteration
                   /\ frame' = NoFrame
                   /\ UNCHANGED stateVars ]_vars
    /\ [](pc \in {"record", "end_pass", "submit", "present", "return", "match"}
            => Count(log, "get_current_texture") = 1)

\* C5 witness: in the second iteration a Timeout result was handled and the
\* loop goes on.
C5_Witness ==
    /\ iteration = 2
    /\ pc = "idle"
    /\ render_result = "Timeout"
    /\ control_flow = "Poll"
    /\ log = <<"write_buffer", "get_current_texture", "eprintln">>

\* The calls of a redraw handling whose frame is presented, in order.
FullFrameLog ==
    <<"write_buffer", "get_current_texture">> \o RenderPassCommands
        \o <<"end_render_pass", "submit", "present">>

\* Every `b` in the call sequence s has an `a` before it.
Precedes(s, a, b) ==
    \A j \in 1..Len(s) : (s[j] = b) => \E i \in 1..(j - 1) : s[i] = a

\* The frame phase of the specification the handler is in.
Phase ==
    CASE pc = "idle" -> "Idle"
      [] pc = "update" -> "Updating"
      [] pc = "acquire" -> "Acquiring"
      [] pc \in {"record", "end_pass"} -> "Recording"
      [] pc \in {"submit", "present"} ->
            IF Count(log, "present") > 0 THEN "Presented" ELSE "Submitting"
      [] pc = "return" ->
            IF Count(log, "present") > 0 THEN "Presented" ELSE "Submitting"
      [] pc = "match" ->
            IF render_result = "Ok" THEN "Presented" ELSE "Acquiring"

PhaseOrder ==
    { <<"Idle", "Updating">>, <<"Updating", "Acquiring">>,
      <<"Acquiring", "Recording">>, <<"Recording", "Submitting">>,
      <<"Submitting", "Presented">>, <<"Presented", "Idle">> }

\* C8: a frame goes through Idle, Updating, Acquiring, Recording, Submitting,
\* Presented and back to Idle, one phase at a time (a failed acquisition
\* returns from Acquiring to Idle); in the calls of a handler, present comes
\* after submit, submit after the end of the render pass, the pass after a
\* successful acquisition and the acquisition after update's buffer write;
\* no call is repeated, and a frame that returns Ok made every call once.
C8_FramePhaseOrder ==
    /\ [][ \/ Phase' = Phase
           \/ <<Phase, Phase'>> \in PhaseOrder
           \/ (Phase = "Acquiring" /\ Phase' = "Idle" /\ render_result # "Ok") ]_vars
    /\ []( /\ Precedes(log, "submit", "present")
           /\ Precedes(log, "end_render_pass", "submit")
           /\ Precedes(log, "draw_indexed", "end_render_pass")
           /\ Precedes(log, "get_current_texture", "begin_render_pass")
           /\ Precedes(log, "write_buffer", "get_current_texture")
           /\ \A c \in {log[i] : i \in 1..Len(log)} : Count(log, c) = 1
           /\ (Count(log, "begin_render_pass") > 0) =>
                  render_result \in {"none", "Ok"}
           /\ (frame.output = "presented") => (frame.encoder = "finished")
           /\ (frame.encoder = "finished") => (Count(log, "end_render_pass") = 1)
           /\ (frame.encoder # "none") => (frame.output # "none")
           /\ (render_result = "Ok") => (log = FullFrameLog) )

\* C8 witness: a frame of the second iteration was presented and render()
\* returned Ok.
C8_Witness ==
    /\ iteration = 2
    /\ pc = "idle"
    /\ render_result = "Ok"
    /\ log = FullFrameLog

\* C9: the redraw handling of an iteration calls update() once and then
\* render() once: render() never starts without the update() of the same
\* handling just before it, an iteration that goes on to the next one has
\* made exactly one call of each, and no input or resize event is handled
\* while the handling is between its first and its last statement.
C9_UpdateThenRenderOnce ==
    /\ []( /\ updates <= 1
           /\ renders <= updates
           /\ (pc = "update") => (updates = 0 /\ renders = 0 /\ log = <<>>)
           /\ (pc = "acquire") =>
                  /\ updates = 1 /\ renders = 0
                  /\ log = <<"write_buffer">> /\ resize_calls = <<>>
           /\ (pc \notin {"idle", "update", "acquire"}) =>
                  (updates = 1 /\ renders = 1)
           /\ (stage = "redraw" /\ pc = "idle" /\ ~redraw_requested) =>
                  (updates = 1 /\ renders = 1) )
    /\ [][ /\ (iteration' # iteration) => (updates = 1 /\ renders = 1)
           /\ (pc # "idle") => (camera_controller' = camera_controller)
           /\ (pc \notin {"idle", "match"}) =>
                  (size' = size /\ config' = config /\ surface' = surface
                   /\ resize_calls' = resize_calls)
           /\ (pc = "update") => (pc' = "acquire") ]_vars

\* C9 witness: the redraw handling of the second iteration is over, with one
\* update() and one render().
C9_Witness ==
    /\ iteration = 2
    /\ stage = "redraw"
    /\ pc = "idle"
    /\ ~redraw_requested
    /\ updates = 1
    /\ renders = 1

\* C10: while render() holds an acquired frame that is not yet presented,
\* the handler has made no configure call; and a configure call is found only
\* in the calls of initialization, of the handling of a resize event, or of
\* the handling of a Lost result, where render() holds no frame.
C10_NoReconfigureInFlight ==
    /\ (frame.output # "none") => (Count(log, "configure") = 0)
    /\ (Count(log, "get_current_texture") > 0 /\ render_result # "Lost") =>
           (Count(log, "configure") = 0)
    /\ (Count(log, "configure") > 0) =>
           \/ (log = InitCalls /\ iteration = 1 /\ stage = "events" /\ pc = "idle")
           \/ ( /\ stage = "events" /\ pc = "idle"
                /\ log = <<"configure">> /\ resize_calls = <<"sized">> )
           \/ ( /\ pc = "idle" /\ render_result = "Lost" /\ frame = NoFrame
                /\ log = <<"write_buffer", "get_current_texture", "configure">>
                /\ resize_calls = <<"sized">> )

\* C10 witness: render() holds an acquired frame, about to be presented, on a
\* surface that a resize event has reconfigured since initialization.
C10_Witness ==
    /\ frame.output = "acquired"
    /\ pc = "present"
    /\ NonZero(size)
    /\ camera.aspect # Ratio(size.width, size.height)

\* The positions of the commands named op in the recorded pass p.
OpsAt(p, op) == {i \in 1..Len(p) : p[i].op = op}

\* C13: once render() has recorded its render pass, the pass holds, in this
\* order: the clear of the color target to (0.1, 0.1, 0.1, 1.0), the render
\* pipeline, the texture bind group at slot 0, the camera bind group at slot
\* 1, the vertex buffer at slot 0, the index buffer, and one indexed draw of
\* indices 0..num_indices (9) with instances 0..1; the draw is the only draw
\* and comes after the pipeline, both bind groups and both buffers; and
\* nothing is recorded before the frame is acquired.
C13_RenderPassOrder ==
    LET p == frame.pass
    IN  /\ (frame.encoder = "none") => (p = <<>>)
        /\ (frame.encoder # "none") =>
              /\ frame.output # "none"
              /\ Len(p) = 7
              /\ p[1] = [op |-> "begin_render_pass",
                         load |-> [clear |-> [r |-> "0.1", g |-> "0.1",
                                              b |-> "0.1", a |-> "1.0"]],
                         store |-> TRUE]
              /\ p[2] = [op |-> "set_pipeline", pipeline |-> render_pipeline]
              /\ p[3] = [op |-> "set_bind_group", index |-> 0,
                         bind_group |-> diffuse_bind_group]
              /\ p[4] = [op |-> "set_bind_group", index |-> 1,
                         bind_group |-> camera_bind_group]
              /\ p[5] = [op |-> "set_vertex_buffer", slot |-> 0,
                         buffer |-> vertex_buffer]
              /\ p[6].op = "set_index_buffer" /\ p[6].buffer = index_buffer
              /\ p[7].op = "draw_indexed"
              /\ p[7].indices = [start |-> 0, end |-> 9]
              /\ p[7].indices.end = num_indices
              /\ p[7].instances = [start |-> 0, end |-> 1]
              /\ Cardinality(OpsAt(p, "draw_indexed")) = 1
              /\ \A d \in OpsAt(p, "draw_indexed") :
                    \A op \in {"set_pipeline", "set_vertex_buffer",
                               "set_index_buffer"} :
                        \E i \in OpsAt(p, op) : i < d
              /\ \A d \in OpsAt(p, "draw_indexed") :
                    \A slot \in {0, 1} :
                        \E i \in OpsAt(p, "set_bind_group") :
                            i < d /\ p[i].index = slot
              /\ Count(log, "draw_indexed") = 1
              /\ Precedes(log, "set_index_buffer", "draw_indexed")

\* C13 witness: the frame of the second iteration is submitted with its
\* recorded pass, after a resize event changed the size.
C13_Witness ==
    /\ iteration = 2
    /\ pc = "present"
    /\ frame.encoder = "finished"
    /\ Len(frame.pass) = 7
    /\ camera.aspect # Ratio(size.width, size.height)

\* C11: when get_current_texture() fails, render() returns the error with
\* no frame and no encoder, and the handler's calls hold no render pass, no
\* submit and no present; a handling that is past its acquisition has called
\* get_current_texture() exactly once, so an error is retried only by the
\* acquisition of a later redraw.
C11_FailedAcquireSkipsFrame ==
    /\ renders <= 1
    /\ Count(log, "get_current_texture") <= 1
    /\ (pc \in {"record", "end_pass", "submit", "present", "return", "match"})
          => (Count(log, "get_current_texture") = 1 /\ renders = 1)
    /\ (render_result \in SurfaceErrors) =>
          /\ pc \in {"match", "idle"}
          /\ frame = NoFrame
          /\ Count(log, "get_current_texture") = 1
          /\ Count(log, "begin_render_pass") = 0
          /\ Count(log, "draw_indexed") = 0
          /\ Count(log, "submit") = 0
          /\ Count(log, "present") = 0
          /\ renders = 1

\* C11 witness: in the second iteration render() has returned Outdated after
\* its one acquisition attempt.
C11_Witness ==
    /\ iteration = 2
    /\ pc = "match"
    /\ render_result = "Outdated"
    /\ log = <<"write_buffer", "get_current_texture">>
    /\ frame = NoFrame

\* C14: only update() changes the camera and the camera uniform: a step that
\* changes either is the update() of a redraw handling, and the handling of a
\* window event (input(), resize()), every statement of render() and every
\* arm of the match on its result leave all Camera fields and the uniform's
\* matrix as they were.
C14_CameraMutatedOnlyInUpdate ==
    [][ /\ (camera' # camera \/ camera_uniform' # camera_uniform)
              => (pc = "update" /\ pc' = "acquire" /\ updates' = updates + 1)
        /\ (stage = "events" /\ pc = "idle")
              => UNCHANGED << camera, camera_uniform >>
        /\ (pc \in {"acquire", "record", "end_pass", "submit", "present",
                    "return", "match"})
              => UNCHANGED << camera, camera_uniform >> ]_vars

\* C14 witness: two update() calls have moved the eye, and the Lost result of
\* the second frame was handled by a resize() that reconfigured the surface.
C14_Witness ==
    /\ camera.eye.dist = EyeDist0 - 2 * Speed
    /\ pc = "idle"
    /\ render_result = "Lost"
    /\ resize_calls = <<"sized">>
    /\ camera_uniform.view_proj.view.eye = camera.eye

\* C15: in every reachable state the vertex buffer holds VERTICES, the index
\* buffer holds INDICES, num_indices is the length of INDICES, and the texture
\* bind group, the camera bind group and the render pipeline are the ones
\* State::new created: no handler writes or replaces any of them.
C15_MeshAndPipelineImmutable ==
    /\ vertex_buffer = VERTICES
    /\ index_buffer = INDICES
    /\ num_indices = Len(INDICES)
    /\ diffuse_bind_group = DiffuseBindGroupNew
    /\ camera_bind_group = CameraBindGroupNew
    /\ render_pipeline = RenderPipelineNew([format |-> PreferredFormat])

\* C15 witness: the second iteration has presented a frame after an update()
\* moved the eye and a resize changed the size the window started with.
C15_Witness ==
    /\ iteration = 2
    /\ pc = "idle"
    /\ render_result = "Ok"
    /\ camera.eye.dist # EyeDist0
    /\ camera.aspect # Ratio(size.width, size.height)
    /\ render_pipeline.target_format = surface.format

\* C19: from the acquisition of a redraw handling to the return of render(),
\* and so at its queue.submit, the camera buffer holds the CameraUniform
\* stored in State, whose matrix is the view-projection matrix of the current
\* Camera; the handling has written the buffer exactly once, in update().
C19_CameraBufferFresh ==
    (pc \in {"acquire", "record", "end_pass", "submit", "present", "return",
             "match"}) =>
        /\ camera_buffer = camera_uniform
        /\ camera_uniform.view_proj = build_view_projection_matrix(camera)
        /\ Count(log, "write_buffer") = 1
        /\ Precedes(log, "write_buffer", "submit")

\* C19 witness: the frame of the second iteration is submitted after a resize
\* event and after update() moved the eye, and the buffer holds the moved eye.
C19_Witness ==
    /\ iteration = 2
    /\ pc = "present"
    /\ Count(log, "submit") = 1
    /\ camera.eye.dist = EyeDist0 - Speed
    /\ camera_buffer.view_proj.view.eye.dist = EyeDist0 - Speed
    /\ camera.aspect # Ratio(size.width, size.height)

\* The triangles of an index list: its consecutive triples.
Triangles(indices) ==
    { << indices[3 * k + 1], indices[3 * k + 2], indices[3 * k + 3] >> :
        k \in 0..((Len(indices) \div 3) - 1) }

\* C17: the index buffer holds the 9 indices 0,1,4, 1,2,4, 2,3,4 and
\* num_indices is the length of the index list; and whenever render() has
\* recorded its draw, the draw covers indices 0..num_indices of that index
\* buffer over a vertex buffer of 5 vertices, every index drawn is below 5,
\* and the triangles drawn are (0,1,4), (1,2,4), (2,3,4), each containing
\* vertex 4.
C17_IndexListIsFan ==
    /\ index_buffer = <<0, 1, 4, 1, 2, 4, 2, 3, 4>>
    /\ num_indices = Len(index_buffer)
    /\ num_indices = 9
    /\ (frame.pass # <<>>) =>
          LET drawn == frame.pass[6].buffer
              vertices == frame.pass[5].buffer
          IN  /\ drawn = index_buffer
              /\ frame.pass[7].indices = [start |-> 0, end |-> Len(drawn)]
              /\ Len(vertices) = 5
              /\ \A i \in 1..Len(drawn) :
                    drawn[i] >= 0 /\ drawn[i] < Len(vertices)
              /\ Triangles(drawn) = { <<0, 1, 4>>, <<1, 2, 4>>, <<2, 3, 4>> }
              /\ \A t \in Triangles(drawn) : \E k \in 1..3 : t[k] = 4

\* C17 witness: the render pass of the second iteration's frame is recorded.
C17_Witness ==
    /\ iteration = 2
    /\ pc = "end_pass"
    /\ frame.encoder = "pass_open"
    /\ frame.pass[7].op = "draw_indexed"

\* C20: in every reachable state the stored configuration and the one the
\* surface holds have the format, the usage (RENDER_ATTACHMENT) and the
\* present mode (Fifo) State::new chose, the render pipeline's color target
\* format is the format the surface is configured with, and wherever a
\* handler can call resize(), resize() with any size returns a configuration
\* that differs from the stored one in width and height only.
C20_FormatUsagePresentModeFixed ==
    /\ config.format = PreferredFormat
    /\ config.usage = "RENDER_ATTACHMENT"
    /\ config.present_mode = "Fifo"
    /\ surface.format = config.format
    /\ surface.usage = config.usage
    /\ surface.present_mode = config.present_mode
    /\ render_pipeline.target_format = surface.format
    /\ ((stage = "events" /\ pc = "idle") \/ pc = "match") =>
          \A sz \in Sizes :
              LET r == resize(ResizeView(<<>>), sz)
              IN  /\ [r.config EXCEPT !.width = 0, !.height = 0]
                        = [config EXCEPT !.width = 0, !.height = 0]
                  /\ r.surface.format = render_pipeline.target_format

\* C20 witness: after a resize event changed the size, the Lost result of the
\* second iteration's frame was handled by a reconfiguration.
C20_Witness ==
    /\ iteration = 2
    /\ pc = "idle"
    /\ render_result = "Lost"
    /\ resize_calls = <<"sized">>
    /\ camera.aspect # Ratio(size.width, size.height)
    /\ surface.format = PreferredFormat

\* C18: in every state in which the closure can be given a window event, and
\* for every event: whatever input() returns, an event it reports handled
\* causes no resize() call, no configure call and no change of the control
\* flow; an unhandled CloseRequested or Escape press sets the control flow to
\* Exit; an unhandled Resized or ScaleFactorChanged event calls resize() once
\* with the event's size; so the surface is reconfigured only for a resize
\* event that input() did not handle.  The arm as a whole hands the event to
\* input() first and does to State what match_event does for its answer.
C18_InputFirstThenDispatch ==
    (stage = "events" /\ pc = "idle") =>
        \A e \in WindowEvents :
            LET view == ResizeView(<<>>)
                same == [st |-> view, control_flow |-> control_flow]
                r == input(camera_controller, e)
                resized == resize(view, e.new_size)
            IN  /\ match_event(TRUE, view, control_flow, e) = same
                /\ match_event(FALSE, view, control_flow, e) =
                      CASE e.type = "CloseRequested"
                           \/ (e.type = "KeyboardInput" /\ e.state = "Pressed"
                               /\ e.key = "Escape") ->
                              [st |-> view, control_flow |-> "Exit"]
                        [] e.type \in {"Resized", "ScaleFactorChanged"} ->
                              [st |-> resized, control_flow |-> control_flow]
                        [] OTHER -> same
                /\ (e.type \in {"Resized", "ScaleFactorChanged"}) =>
                      resized = [view EXCEPT
                          !.resize_calls = <<Area(e.new_size)>>,
                          !.size = IF NonZero(e.new_size) THEN e.new_size
                                   ELSE view.size,
                          !.config = IF NonZero(e.new_size)
                                     THEN [config EXCEPT
                                             !.width = e.new_size.width,
                                             !.height = e.new_size.height]
                                     ELSE config,
                          !.surface = IF NonZero(e.new_size)
                                      THEN [config EXCEPT
                                              !.width = e.new_size.width,
                                              !.height = e.new_size.height]
                                      ELSE surface,
                          !.log = IF NonZero(e.new_size) THEN <<"configure">>
                                  ELSE <<>>]
                /\ window_event(camera_controller, view, control_flow, e) =
                      [ ctrl |-> r.ctrl,
                        st |-> match_event(r.handled, view, control_flow, e).st,
                        control_flow |->
                            match_event(r.handled, view, control_flow, e).control_flow ]

\* C18 witness: in the second iteration the handler of an unhandled resize
\* event has called resize() and reconfigured the surface, while a tracked
\* key that input() handled is held down.
C18_Witness ==
    /\ iteration = 2
    /\ stage = "events"
    /\ pc = "idle"
    /\ resize_calls = <<"sized">>
    /\ log = <<"configure">>
    /\ Held(camera_controller) = 1
    /\ control_flow = "Poll"

\* Only the forward intent is active.
OnlyForward(ctrl) ==
    /\ ctrl.is_forward_pressed
    /\ ~ctrl.is_backward_pressed
    /\ ~ctrl.is_left_pressed
    /\ ~ctrl.is_right_pressed

Max(a, b) == IF a >= b THEN a ELSE b

\* C16, as claimed: an update() with only the forward intent active leaves
\* the eye at distance max(old_distance - speed, 0) from the target, also
\* when old_distance <= speed.
C16_ForwardMaxBound ==
    [][ (pc = "update" /\ OnlyForward(camera_controller)) =>
            camera'.eye.dist = Max(camera.eye.dist - camera_controller.speed, 0)
      ]_vars

\* C16, amended: an update() with only the forward intent active leaves the
\* eye at distance old_distance - speed when old_distance > speed and at
\* old_distance, unmoved, when old_distance <= speed; the distance is never
\* negative and never grows, and the direction from the target to the eye
\* is unchanged, so the eye never passes the target.
C16_ForwardStopsNearTarget ==
    [][ (pc = "update" /\ OnlyForward(camera_controller)) =>
            /\ camera'.eye.dist =
                  IF camera.eye.dist > camera_controller.speed
                  THEN camera.eye.dist - camera_controller.speed
                  ELSE camera.eye.dist
            /\ camera'.eye.dist >= 0
            /\ camera'.eye.dist <= camera.eye.dist
            /\ camera'.eye.dir = camera.eye.dir
            /\ [camera' EXCEPT !.eye = camera.eye] = camera ]_vars

\* C16 witness: update() has run with only the forward intent active and the
\* eye is within speed of the target.
C16_Witness ==
    /\ pc = "acquire"
    /\ updates = 1
    /\ OnlyForward(camera_controller)
    /\ camera.eye.dist > 0
    /\ camera.eye.dist <= camera_controller.speed
    /\ camera_buffer.view_proj.view.eye = camera.eye

\* The log entries of the calls of State::new that failed.
NewFailures ==
    { "request_adapter_failed", "request_device_failed",
      "get_preferred_format_failed", "from_bytes_failed" }

\* A call of State::new has failed.
NewFailed == \E i \in 1..Len(log) : log[i] \in NewFailures

\* The closure given to event_loop.run() has not been called.  Every call
\* of the closure starts a fresh `log`, so until the first call the log
\* still begins with the calls of State::new; and nothing that a handler
\* does has happened.
NoHandlerRan ==
    /\ Len(log) > 0
    /\ log[1] = "create_surface"
    /\ stage \in {"new", "aborted", "events"}
    /\ pc \in {"request_adapter", "request_device", "configure", "from_bytes",
              "build", "panicked", "idle"}
    /\ updates = 0
    /\ renders = 0
    /\ iteration = 1
    /\ resize_calls = <<>>
    /\ render_result = "none"
    /\ frame = NoFrame
    /\ control_flow = "Poll"
    /\ ~redraw_requested
    /\ known_size = size
    /\ \A i \in 1..Len(log) :
          log[i] \notin {"write_buffer", "get_current_texture", "submit",
                         "present", "request_redraw"}

\* C12: State::new either completes or the process ends inside it.  A missing
\* adapter, a failed device request, a missing surface format or a texture
\* that fails to decode ends the process at that call: no State is built and
\* no handler ever runs.  While State::new runs no handler runs, and of the
\* State fields only the locals `config` and `camera_controller` exist, the
\* controller from the configuration of the surface on, also when the
\* texture then fails.  The event loop only ever works on a State with every
\* field built, and its first handler finds exactly the state a complete
\* State::new leaves.
C12_InitAllOrNothing ==
    /\ NewFailed => (stage = "aborted")
    /\ (stage = "aborted") =>
          /\ NewFailed
          /\ pc = "panicked"
          /\ log[Len(log)] = "panic"
          /\ NoHandlerRan
    /\ (stage \in {"new", "aborted"}) =>
          /\ NoHandlerRan
          /\ camera = Unbuilt /\ camera_uniform = Unbuilt
          /\ camera_buffer = Unbuilt
          /\ IF Count(log, "configure") > 0
             THEN /\ camera_controller = CameraControllerNew(Speed)
                  /\ config = ConfigNew(size, PreferredFormat)
                  /\ surface = config
             ELSE /\ camera_controller = Unbuilt
                  /\ config = Unbuilt
                  /\ surface = Unbuilt
          /\ vertex_buffer = Unbuilt /\ index_buffer = Unbuilt
          /\ num_indices = Unbuilt /\ render_pipeline = Unbuilt
          /\ diffuse_bind_group = Unbuilt /\ camera_bind_group = Unbuilt
    /\ (stage \in {"events", "redraw", "destroyed"}) =>
          /\ ~NewFailed
          /\ DOMAIN camera = DOMAIN CameraNew(config)
          /\ camera_uniform = update_view_proj(CameraUniformNew, camera)
          /\ camera_buffer = camera_uniform
          /\ camera_controller.speed = Speed
          /\ config = [ConfigNew(size, PreferredFormat) EXCEPT
                           !.width = config.width, !.height = config.height]
          /\ surface = config
          /\ vertex_buffer = VERTICES /\ index_buffer = INDICES
          /\ num_indices = Len(INDICES)
          /\ render_pipeline = RenderPipelineNew(config)
          /\ diffuse_bind_group = DiffuseBindGroupNew
          /\ camera_bind_group = CameraBindGroupNew
    /\ (stage \in {"redraw", "destroyed"}) => ~NoHandlerRan
    /\ (stage = "events" /\ NoHandlerRan) => (Init /\ log = InitCalls)

\* C12 witness: the texture failed to decode after the surface was
\* configured, and the process has ended inside State::new.
C12_Witness ==
    /\ stage = "aborted"
    /\ log = << "create_surface", "request_adapter", "request_device",
                "configure", "from_bytes_failed", "panic" >>
    /\ surface = ConfigNew(size, PreferredFormat)
    /\ camera_controller = CameraControllerNew(Speed)
    /\ camera = Unbuilt
====
